---- MODULE Spec2Model ----
(***************************************************************************)
(* Model of the Replai-Train command line scripts:                         *)
(*   download_data.py   (dataset fetcher, with its manual fallback path)   *)
(*   extract_images.py  (frame extractor)                                  *)
(*   downscale.py       (video downscaler)                                 *)
(*   train.py           (train/export driver)                              *)
(* Each script is a sequential program; its position is a pc variable and  *)
(* the outcomes of the external calls it makes (network, subprocess, file  *)
(* system) are chosen nondeterministically.                                *)
(***************************************************************************)
EXTENDS Integers, Sequences, FiniteSets, TLC

\* ------------------------------------------------------------------------
\* Dataset fetcher: download_data.py
\* ------------------------------------------------------------------------
VARIABLES
    settings,      \* keys present in the settings mapping
    fpc,           \* position inside download_dataset
    netCalls,      \* network calls made so far, in order
    dirState,      \* state of dataset.location: "unset", "absent", "empty", "files"
    dirMade,       \* os.makedirs(output_dir) has run
    flog,          \* records emitted on the logger
    ferr,          \* exception that left download_dataset
    fret,          \* value returned by download_dataset, "none" before the return
    extracted,     \* number of extractall calls made
    listed,        \* what lines 62-63 saw at dataset.location: "unset", "absent", "empty", "files"
    resp,          \* the local resp: status and body of the export-link response
    zip_resp       \* the local zip_resp: status of the zip response, 0 when unset

fvars == <<settings, fpc, netCalls, dirState, dirMade, flog, ferr, fret, extracted,
           listed, resp, zip_resp>>

required_keys == <<"api_key", "workspace", "project", "version", "format">>

\* keys a settings mapping may hold: the required ones and an unrelated one
SettingsKeys == {required_keys[i] : i \in 1..Len(required_keys)} \cup {"comment"}

StatusCodes == {200, 404, 500}

\* the path download_dataset hands to the client as location=
Location == "abs_output_dir"

LogRec(level, msg, arg) == [level |-> level, msg |-> msg, arg |-> arg]

NoError == [type |-> "none", arg |-> <<>>]

NoResponse == [status |-> 0, body |-> "none"]

Raise(type, arg) == [type |-> type, arg |-> arg]

missingBad(s) == SelectSeq(required_keys, LAMBDA k : k \notin s /\ k # "format")

\* missing = [k for k in required_keys if k not in settings]
missing(s) == SelectSeq(required_keys, LAMBDA k : k \notin s)

InitFetch ==
    /\ settings \in SUBSET SettingsKeys
    /\ fpc = "validate"
    /\ netCalls = <<>>
    /\ dirState = "unset"
    /\ dirMade = FALSE
    /\ flog = <<>>
    /\ ferr = NoError
    /\ fret = "none"
    /\ extracted = 0
    /\ listed = "unset"
    /\ resp = NoResponse
    /\ zip_resp = 0

\* lines 30-35: the required-key check
Validate ==
    /\ fpc = "validate"
    /\ IF missing(settings) # <<>>
       THEN /\ flog' = Append(flog, LogRec("error", "Missing required settings keys", missing(settings)))
            /\ ferr' = Raise("ValueError", missing(settings))
            /\ fpc' = "raised"
       ELSE /\ fpc' = "primary"
            /\ UNCHANGED <<flog, ferr>>
    /\ UNCHANGED <<settings, netCalls, dirState, dirMade, fret, extracted, listed, resp, zip_resp>>

\* lines 37-59: make the directory, authenticate, resolve the version, download.
\* The client either raises (during authentication or during the download) or
\* returns a dataset whose location is absent, empty or populated.
PrimaryDownload ==
    /\ fpc = "primary"
    /\ dirMade' = TRUE
    /\ \/ /\ netCalls' = Append(netCalls, "auth")
          /\ ferr' = Raise("ClientError", <<"auth">>)
          /\ fpc' = "raised"
          /\ UNCHANGED <<dirState, flog>>
       \/ /\ netCalls' = netCalls \o <<"auth", "download">>
          /\ ferr' = Raise("ClientError", <<"download">>)
          /\ fpc' = "raised"
          /\ UNCHANGED <<dirState, flog>>
       \/ /\ netCalls' = netCalls \o <<"auth", "download">>
          /\ dirState' \in {"absent", "empty", "files"}
          /\ flog' = Append(flog, LogRec("info", "Dataset downloaded and extracted successfully", <<>>))
          /\ fpc' = "verify"
          /\ UNCHANGED ferr
    /\ UNCHANGED <<settings, fret, extracted, listed, resp, zip_resp>>

fallbackNeededBad(d) == d # "absent"

\* lines 62-65: os.path.exists(dataset.location) and not os.listdir(dataset.location)
fallbackNeeded(d) == d = "empty"

\* lines 62-66 and 98-99: inspect dataset.location
Verify ==
    /\ fpc = "verify"
    /\ listed' = dirState
    /\ IF dirState = "absent"
       THEN /\ flog' = Append(flog, LogRec("error", "Download directory does not exist", <<>>))
            /\ fpc' = "return"
       ELSE IF fallbackNeeded(dirState)
       THEN /\ flog' = flog \o <<LogRec("info", "Files in download directory", <<>>),
                                 LogRec("warning", "Download directory is empty! Attempting manual download...", <<>>)>>
            /\ fpc' = "export_req"
       ELSE /\ flog' = Append(flog, LogRec("info", "Files in download directory", <<"files">>))
            /\ fpc' = "return"
    /\ UNCHANGED <<settings, netCalls, dirState, dirMade, ferr, fret, extracted, resp, zip_resp>>

\* lines 74-81 and 93-96: resp = requests.get(api_url); resp.json(); export link
ExportRequest ==
    /\ fpc = "export_req"
    /\ netCalls' = Append(netCalls, "export_link")
    /\ \/ /\ ferr' = Raise("ConnectionError", <<"export_link">>)
          /\ fpc' = "raised"
          /\ UNCHANGED <<flog, resp>>
       \/ \E status \in StatusCodes, body \in {"link", "nolink", "notjson"} :
          /\ resp' = [status |-> status, body |-> body]
          /\ IF status # 200
             THEN /\ flog' = Append(flog, LogRec("error", "Failed to get export info", <<>>))
                  /\ fpc' = "return"
                  /\ UNCHANGED ferr
             ELSE IF body = "notjson"
             THEN /\ ferr' = Raise("JSONDecodeError", <<"export_link">>)
                  /\ fpc' = "raised"
                  /\ UNCHANGED flog
             ELSE IF body = "nolink"
             THEN /\ flog' = Append(flog, LogRec("error", "No download link found in response", <<>>))
                  /\ fpc' = "return"
                  /\ UNCHANGED ferr
             ELSE /\ flog' = Append(flog, LogRec("info", "Downloading zip from", <<>>))
                  /\ fpc' = "zip_fetch"
                  /\ UNCHANGED ferr
    /\ UNCHANGED <<settings, dirState, dirMade, fret, extracted, listed, zip_resp>>

\* lines 84-85 and 91-92: zip_resp = requests.get(download_link)
ZipFetch ==
    /\ fpc = "zip_fetch"
    /\ netCalls' = Append(netCalls, "zip")
    /\ \/ /\ ferr' = Raise("ConnectionError", <<"zip">>)
          /\ fpc' = "raised"
          /\ UNCHANGED <<flog, zip_resp>>
       \/ \E status \in StatusCodes :
          /\ zip_resp' = status
          /\ IF status = 200
             THEN /\ flog' = Append(flog, LogRec("info", "Extracting zip to", <<>>))
                  /\ fpc' = "extract"
                  /\ UNCHANGED ferr
             ELSE /\ flog' = Append(flog, LogRec("error", "Failed to download zip", <<>>))
                  /\ fpc' = "return"
                  /\ UNCHANGED ferr
    /\ UNCHANGED <<settings, dirState, dirMade, fret, extracted, listed, resp>>

\* lines 87-90: zipfile.ZipFile(...).extractall(dataset.location)
Extract ==
    /\ fpc = "extract"
    /\ extracted' = extracted + 1
    /\ \/ /\ ferr' = Raise("BadZipFile", <<"extract">>)
          /\ fpc' = "raised"
          /\ UNCHANGED <<flog, dirState>>
       \/ /\ dirState' \in {"empty", "files"}
          /\ flog' = flog \o <<LogRec("info", "Manual extraction complete.", <<"extract">>),
                               LogRec("info", "Files after manual extraction", <<>>)>>
          /\ fpc' = "return"
          /\ UNCHANGED ferr
    /\ UNCHANGED <<settings, netCalls, dirMade, fret, listed, resp, zip_resp>>

\* line 101: return dataset.location
Return ==
    /\ fpc = "return"
    /\ fret' = Location
    /\ fpc' = "done"
    /\ UNCHANGED <<settings, netCalls, dirState, dirMade, flog, ferr, extracted, listed, resp, zip_resp>>

\* ------------------------------------------------------------------------
\* Frame extractor: extract_images.py
\* ------------------------------------------------------------------------
VARIABLES
    inputExists,    \* input_dir.exists()
    mkdirOk,        \* output_dir.mkdir succeeds
    video_files,    \* sorted(input_dir.rglob("*.mp4")); each video with the
                    \* transcoder's exit code on it and the frames it writes
    epc,            \* position inside extract_frames_gpu
    vidx,           \* index of the video the for loop is at
    frame_counter,
    success_count,
    outdir,         \* files of the session output directory
    elog            \* records emitted on the logger

evars == <<inputExists, mkdirOk, video_files, epc, vidx, frame_counter,
           success_count, outdir, elog>>

MaxVideos == 3

MaxFrames == 2

\* width of the %06d / :06d fields
NameWidth == 6

RECURSIVE DecDigits(_)
\* decimal digits of n, most significant first
DecDigits(n) == IF n < 10 THEN <<n>> ELSE Append(DecDigits(n \div 10), n % 10)

\* "%06d" % n: at least six digits, zero padded on the left
Pad6(n) ==
    LET d == DecDigits(n)
        z == NameWidth - Len(d)
    IN  IF z <= 0 THEN d
        ELSE [i \in 1..NameWidth |-> IF i <= z THEN 0 ELSE d[i - z]]

RECURSIVE LexLess(_, _)
\* string order of two digit strings, as sorted() compares the file names
LexLess(a, b) ==
    IF a = <<>> THEN b # <<>>
    ELSE IF b = <<>> THEN FALSE
    ELSE IF Head(a) # Head(b) THEN Head(a) < Head(b)
    ELSE LexLess(Tail(a), Tail(b))

RECURSIVE SortNames(_)
\* sorted(names)
SortNames(S) ==
    IF S = {} THEN <<>>
    ELSE LET m == CHOOSE x \in S : \A y \in S \ {x} : LexLess(x, y)
         IN  <<m>> \o SortNames(S \ {m})

\* the tmp_%06d.jpg files the transcoder leaves for a video that wrote n frames
TmpFrames(n) == {Pad6(i) : i \in 1..n}

Video == [rc : {0, 1}, n : 0..MaxFrames]

VideoLists == UNION {[1..k -> Video] : k \in 0..MaxVideos}

transcoderFailedBad(rc) == FALSE

\* line 68: result.returncode != 0
transcoderFailed(rc) == rc # 0

NextCounterBad(fc, moved) == IF moved > 1 THEN fc + moved - 1 ELSE fc + moved

\* line 81, once per moved frame: frame_counter += 1
NextCounter(fc, moved) == fc + moved

InitExtract ==
    /\ inputExists \in BOOLEAN
    /\ mkdirOk \in BOOLEAN
    /\ video_files \in VideoLists
    /\ epc = "start"
    /\ vidx = 1
    /\ frame_counter = 1
    /\ success_count = 0
    /\ outdir = {}
    /\ elog = <<>>

\* lines 18-42: validate the input, create the session directory, list videos
Start ==
    /\ epc = "start"
    /\ IF ~inputExists
       THEN /\ elog' = Append(elog, LogRec("error", "Input directory does not exist", <<>>))
            /\ epc' = "returned"
       ELSE IF ~mkdirOk
       THEN /\ elog' = Append(elog, LogRec("error", "Failed to create output directory", <<>>))
            /\ epc' = "returned"
       ELSE IF video_files = <<>>
       THEN /\ elog' = Append(elog, LogRec("error", "No MP4 files found", <<>>))
            /\ epc' = "returned"
       ELSE /\ elog' = Append(elog, LogRec("info", "Found videos", <<Len(video_files)>>))
            /\ epc' = "loop"
    /\ UNCHANGED <<inputExists, mkdirOk, video_files, vidx, frame_counter,
                   success_count, outdir>>

\* lines 78-80: shutil.move of every frame to frame_{frame_counter:06d}.jpg
MoveFrames(dir, frames, fc, v) ==
    LET new == {[name |-> Pad6(fc + j - 1), video |-> v, tmp |-> frames[j]] :
                    j \in 1..Len(frames)}
    IN  {f \in dir : \A g \in new : g.name # f.name} \cup new

\* lines 44-83: one iteration of the for loop
ProcessVideo ==
    /\ epc = "loop"
    /\ vidx <= Len(video_files)
    /\ LET video == video_files[vidx]
           frames == SortNames(TmpFrames(video.n))
       IN  IF transcoderFailed(video.rc)
           THEN /\ elog' = Append(elog, LogRec("error", "Failed to extract frames", <<vidx>>))
                /\ UNCHANGED <<frame_counter, success_count, outdir>>
           ELSE IF frames = <<>>
           THEN /\ elog' = Append(elog, LogRec("warning", "No frames extracted", <<vidx>>))
                /\ UNCHANGED <<frame_counter, success_count, outdir>>
           ELSE /\ outdir' = MoveFrames(outdir, frames, frame_counter, vidx)
                /\ frame_counter' = NextCounter(frame_counter, Len(frames))
                /\ success_count' = success_count + 1
                /\ UNCHANGED elog
    /\ vidx' = vidx + 1
    /\ UNCHANGED <<inputExists, mkdirOk, video_files, epc>>

\* lines 85-86: the loop is over, report the totals
Report ==
    /\ epc = "loop"
    /\ vidx > Len(video_files)
    /\ elog' = Append(elog, LogRec("info", "Completed", <<frame_counter - 1, success_count>>))
    /\ epc' = "done"
    /\ UNCHANGED <<inputExists, mkdirOk, video_files, vidx, frame_counter,
                   success_count, outdir>>

\* ------------------------------------------------------------------------
\* Video downscaler: downscale.py
\* ------------------------------------------------------------------------
VARIABLES
    ffmpegFound,    \* shutil.which(ffmpeg_path) finds the binary
    inputFile,      \* input_path.exists()
    probe,          \* what get_video_dimensions does: returns (w, h), raises
                    \* RuntimeError, or lets FileNotFoundError through
    ffmpegRc,       \* exit code of the transcoder
    dpc,            \* position inside downscale_to_720p_hevc
    orig,           \* the locals orig_w, orig_h
    target,         \* the locals target_w, target_h
    cmds,           \* transcoder invocations, each with its scale_cuda size
    dlog,           \* records emitted on the logger
    derr            \* exception that left downscale_to_720p_hevc

dvars == <<ffmpegFound, inputFile, probe, ffmpegRc, dpc, orig, target, cmds, dlog, derr>>

MaxDim == 12

\* sizes real videos have, and sizes whose 720 * (w / h) falls just below an
\* integer in double arithmetic, next to the small grid 1..MaxDim x 1..MaxDim
KnownSizes == {<<1920, 1080>>, <<1079, 608>>, <<1280, 720>>, <<3840, 2160>>,
               <<640, 480>>, <<720, 576>>, <<1080, 1920>>, <<854, 480>>,
               <<2048, 858>>, <<1000, 999>>, <<7, 5>>, <<7, 80>>, <<140, 1600>>}

Sizes == ((1..MaxDim) \X (1..MaxDim)) \cup KnownSizes

\* bits of a double's significand
MantBits == 53

target_h_const == 720

RECURSIVE ShiftUp(_, _)
\* largest e >= 0 with h * 2^e <= w (w >= h)
ShiftUp(w, h) == IF 2 * h <= w THEN 1 + ShiftUp(w, 2 * h) ELSE 0

RECURSIVE ShiftDown(_, _)
\* smallest e >= 0 with w * 2^e >= h
ShiftDown(w, h) == IF w >= h THEN 0 ELSE 1 + ShiftDown(2 * w, h)

RECURSIVE Pow2(_)
Pow2(k) == IF k = 0 THEN 1 ELSE 2 * Pow2(k - 1)

RECURSIVE PowMod(_, _)
\* 2^k mod d, by repeated squaring
PowMod(k, d) ==
    IF k = 0 THEN 1 % d
    ELSE LET r == PowMod(k \div 2, d)
         IN  IF k % 2 = 0 THEN (r * r) % d ELSE (2 * r * r) % d

\* (n * 2^k) mod d: the remainder left after k + 1 quotient bits of n / d
DivRem(n, d, k) == ((n % d) * PowMod(k, d)) % d

\* quotient bit k of n / d, bit 0 the leading one (d <= n < 2d)
QuotBit(n, d, k) ==
    IF k = 0 THEN 1
    ELSE IF 2 * DivRem(n, d, k - 1) >= d THEN 1 ELSE 0

\* the first k quotient bits of n / d, most significant first
DivBits(n, d, k) == [i \in 1..k |-> QuotBit(n, d, i - 1)]

\* bits + 1, same length (all ones wraps to all zeros)
IncBits(b) ==
    LET zeros == {i \in 1..Len(b) : b[i] = 0}
        last  == IF zeros = {} THEN 0 ELSE CHOOSE i \in zeros : \A j \in zeros : j <= i
    IN  [i \in 1..Len(b) |-> IF i < last THEN b[i] ELSE IF i = last THEN 1 ELSE 0]

\* IEEE 754 round to nearest, ties to even, of a significand with guard bit g
\* and sticky flag; e is the exponent of the leading bit
RoundNearestEven(b, g, sticky, e) ==
    IF g = 1 /\ (sticky \/ b[Len(b)] = 1)
    THEN IF \A i \in 1..Len(b) : b[i] = 1
         THEN [m |-> [i \in 1..Len(b) |-> IF i = 1 THEN 1 ELSE 0], e |-> e + 1]
         ELSE [m |-> IncBits(b), e |-> e]
    ELSE [m |-> b, e |-> e]

\* orig_w / orig_h: true division of two ints, correctly rounded to a double
FloatDiv(w, h) ==
    LET up   == IF w >= h THEN ShiftUp(w, h) ELSE 0
        down == IF w >= h THEN 0 ELSE ShiftDown(w, h)
        num  == w * Pow2(down)
        den  == h * Pow2(up)
    IN  RoundNearestEven(DivBits(num, den, MantBits),
                         QuotBit(num, den, MantBits),
                         DivRem(num, den, MantBits) # 0,
                         up - down)

\* bits of one limb of the multi-word product
LimbBits == 15

RECURSIVE BitsToInt(_)
BitsToInt(b) == IF b = <<>> THEN 0 ELSE 2 * BitsToInt(SubSeq(b, 1, Len(b) - 1)) + b[Len(b)]

RECURSIVE BitLen(_)
\* number of binary digits of n
BitLen(n) == IF n = 0 THEN 0 ELSE 1 + BitLen(n \div 2)

\* the limbs of a bit string, least significant limb first
ToLimbs(b) ==
    LET L == Len(b)
        k == (L + LimbBits - 1) \div LimbBits
    IN  [j \in 1..k |->
            BitsToInt(SubSeq(b, (IF L - j * LimbBits + 1 < 1 THEN 1 ELSE L - j * LimbBits + 1),
                                L - (j - 1) * LimbBits))]

RECURSIVE MulLimbs(_, _, _)
\* limbs * c + carry, least significant limb first
MulLimbs(l, c, carry) ==
    IF l = <<>> THEN (IF carry = 0 THEN <<>> ELSE <<carry>>)
    ELSE LET v == c * Head(l) + carry
         IN  <<v % Pow2(LimbBits)>> \o MulLimbs(Tail(l), c, v \div Pow2(LimbBits))

\* the bit string of a limb sequence, most significant first, no leading zero
FromLimbs(l) ==
    LET L == (Len(l) - 1) * LimbBits + BitLen(l[Len(l)])
    IN  [i \in 1..L |->
            LET pos == L - i
            IN  (l[(pos \div LimbBits) + 1] \div Pow2(pos % LimbBits)) % 2]

\* the exact product bits * c, most significant first
MulBits(b, c) == FromLimbs(MulLimbs(ToLimbs(b), c, 0))

\* target_h * aspect_ratio: int times double, correctly rounded to a double
FloatMulInt(c, x) ==
    LET p == MulBits(x.m, c)
        L == Len(p)
    IN  RoundNearestEven(SubSeq(p, 1, MantBits), p[MantBits + 1],
                         \E i \in (MantBits + 2)..L : p[i] = 1,
                         x.e + (L - MantBits))

\* int(x) of a positive double below 2^31: drop the fraction bits
FloatTrunc(x) == IF x.e < 0 THEN 0 ELSE BitsToInt(SubSeq(x.m, 1, x.e + 1))

\* lines 75-76: if target_w % 2 != 0: target_w += 1
forceEven(t) == IF t % 2 # 0 THEN t + 1 ELSE t

scaledWidthBad(w, h) == (2 * target_h_const * w + h) \div (2 * h)

\* lines 72-73: int(target_h * (orig_w / orig_h))
scaledWidth(w, h) == FloatTrunc(FloatMulInt(target_h_const, FloatDiv(w, h)))

Unbound == [bound |-> FALSE, w |-> 0, h |-> 0]

Bound(w, h) == [bound |-> TRUE, w |-> w, h |-> h]

ProbeOutcomes == {[kind |-> "ok", w |-> s[1], h |-> s[2]] : s \in Sizes}
                 \cup {[kind |-> k, w |-> 0, h |-> 0] : k \in {"RuntimeError", "FileNotFoundError"}}

InitScale ==
    /\ ffmpegFound \in BOOLEAN
    /\ inputFile \in BOOLEAN
    /\ probe \in ProbeOutcomes
    /\ ffmpegRc \in {0, 1}
    /\ dpc = "check"
    /\ orig = Unbound
    /\ target = Unbound
    /\ cmds = <<>>
    /\ dlog = <<>>
    /\ derr = NoError

\* lines 52-62: the transcoder binary and the input file must exist
CheckEnv ==
    /\ dpc = "check"
    /\ IF ~ffmpegFound
       THEN /\ derr' = Raise("FileNotFoundError", <<"ffmpeg">>)
            /\ dpc' = "raised"
       ELSE IF ~inputFile
       THEN /\ derr' = Raise("FileNotFoundError", <<"input">>)
            /\ dpc' = "raised"
       ELSE /\ dpc' = "probe"
            /\ UNCHANGED derr
    /\ UNCHANGED <<ffmpegFound, inputFile, probe, ffmpegRc, orig, target, cmds, dlog>>

\* lines 65-76: probe the size and compute the target size
ProbeAndTarget ==
    /\ dpc = "probe"
    /\ IF probe.kind = "FileNotFoundError"
       THEN /\ derr' = Raise("FileNotFoundError", <<"ffprobe">>)
            /\ dpc' = "raised"
            /\ UNCHANGED <<orig, target, dlog>>
       ELSE IF probe.kind = "RuntimeError"
       THEN /\ dlog' = Append(dlog, LogRec("warning", "Could not determine dimensions. Defaulting to 1280x720.", <<>>))
            /\ target' = Bound(1280, 720)
            /\ dpc' = "logscale"
            /\ UNCHANGED <<orig, derr>>
       ELSE /\ orig' = Bound(probe.w, probe.h)
            /\ target' = Bound(forceEven(scaledWidth(probe.w, probe.h)), target_h_const)
            /\ dpc' = "logscale"
            /\ UNCHANGED <<dlog, derr>>
    /\ UNCHANGED <<ffmpegFound, inputFile, probe, ffmpegRc, cmds>>

\* line 78: logger.info(f"Scaling from {orig_w}x{orig_h} to ..."); reading a
\* local that was never assigned raises UnboundLocalError
LogScaling ==
    /\ dpc = "logscale"
    /\ IF ~orig.bound
       THEN /\ derr' = Raise("UnboundLocalError", <<"orig_w">>)
            /\ dpc' = "raised"
            /\ UNCHANGED dlog
       ELSE /\ dlog' = Append(dlog, LogRec("info", "Scaling", <<orig.w, orig.h, target.w, target.h>>))
            /\ dpc' = "transcode"
            /\ UNCHANGED derr
    /\ UNCHANGED <<ffmpegFound, inputFile, probe, ffmpegRc, orig, target, cmds>>

\* lines 80-111: run the transcoder; in the handler of a non-zero exit,
\* logger.error(..., file=sys.stderr) raises TypeError
RunTranscoder ==
    /\ dpc = "transcode"
    /\ cmds' = Append(cmds, <<target.w, target.h>>)
    /\ IF ffmpegRc = 0
       THEN /\ dlog' = dlog \o <<LogRec("info", "Running command", <<target.w, target.h>>),
                                 LogRec("info", "Output written to", <<>>)>>
            /\ dpc' = "done"
            /\ UNCHANGED derr
       ELSE /\ dlog' = Append(dlog, LogRec("info", "Running command", <<target.w, target.h>>))
            /\ derr' = Raise("TypeError", <<"file">>)
            /\ dpc' = "raised"
    /\ UNCHANGED <<ffmpegFound, inputFile, probe, ffmpegRc, orig, target>>

\* ------------------------------------------------------------------------
\* Train/export driver: train.py
\* ------------------------------------------------------------------------
VARIABLES
    fileState,        \* the settings path: "absent", "garbage" (not JSON) or "json"
    fileContent,      \* the mapping stored in the file when it is JSON
    exportArg,        \* args.export: "None", "onnx" or "engine"
    exportRaises,     \* whether model.export raises
    writeOk,          \* whether the run record can be written
    tpc,              \* position inside main
    train_settings,
    export_settings,
    trainCalls,       \* keyword arguments of each model.train call
    exportCalls,      \* format of each model.export call
    record,           \* settings_used of the run record written, <<>> if none
    tlog,             \* records emitted on the logger
    terr              \* exception that left main

tvars == <<fileState, fileContent, exportArg, exportRaises, writeOk, tpc,
           train_settings, export_settings, trainCalls, exportCalls, record,
           tlog, terr>>

\* a mapping with no key
EmptyDict == <<>>

DEFAULT_SETTINGS ==
    [model |-> "yolo11n.pt", data |-> "data.yaml", epochs |-> "100",
     val |-> "True", plots |-> "True", seed |-> "42", patience |-> "10",
     imgsz |-> "640", batch |-> "16", freeze |-> "10", save |-> "True",
     cache |-> "disk", device |-> "0", pretrained |-> "True",
     project |-> "runs/train", name |-> "yolo11n_finetune"]

\* dict.update: d with the entries of l laid over it
Merge(d, l) == [k \in DOMAIN d \cup DOMAIN l |-> IF k \in DOMAIN l THEN l[k] ELSE d[k]]

\* d[k] = v
DictSet(d, k, v) == [x \in DOMAIN d \cup {k} |-> IF x = k THEN v ELSE d[x]]

\* d with only the keys of K
Restrict(d, K) == [k \in K |-> d[k]]

\* the settings the export call reads, in the order it reads them
export_keys == <<"task", "imgsz", "batch", "half", "nms", "dynamic", "int8", "data">>

\* "train" sections a settings file may hold
TrainSections ==
    LET base == [model |-> "yolo11n.pt", name |-> "run", epochs |-> "5"]
    IN  {Restrict(base, K) : K \in SUBSET {"model", "name", "epochs"}}
        \cup {DictSet(Restrict(base, K), "freeze", f) :
                 K \in SUBSET {"model", "name", "epochs"}, f \in {"None", "0", "5"}}

\* "export" sections a settings file may hold
ExportSections ==
    LET full == [task |-> "detect", imgsz |-> "640", batch |-> "1", half |-> "True",
                 nms |-> "False", dynamic |-> "False", int8 |-> "False",
                 data |-> "data.yaml"]
        some == {full, Restrict(full, DOMAIN full \ {"task"}), EmptyDict}
    IN  some \cup {DictSet(e, "export", "onnx") : e \in some}

\* top-level scalar keys a settings file may hold
FlatParts == {EmptyDict, DEFAULT_SETTINGS, Restrict(DEFAULT_SETTINGS, DOMAIN DEFAULT_SETTINGS \ {"freeze"})}

FileContents ==
    {flat : flat \in FlatParts}
    \cup {DictSet(flat, "train", t) : flat \in FlatParts, t \in TrainSections}
    \cup {DictSet(flat, "export", e) : flat \in FlatParts, e \in ExportSections}
    \cup {DictSet(DictSet(flat, "train", t), "export", e) :
             flat \in FlatParts, t \in TrainSections, e \in ExportSections}

\* lines 43-65: what the settings file holds after load_or_create_settings
createdFile(state, content) == IF state = "absent" THEN DEFAULT_SETTINGS ELSE content

\* lines 43-65: what load_or_create_settings returns
loadedSettings(state, content) ==
    IF state = "json" THEN Merge(DEFAULT_SETTINGS, content) ELSE DEFAULT_SETTINGS

\* lines 44, 55, 64: what load_or_create_settings logs
loadLog(state) ==
    IF state = "absent"
    THEN <<LogRec("warning", "not found. Creating with default settings...", <<>>)>>
    ELSE IF state = "garbage"
    THEN <<LogRec("info", "Loading settings from", <<>>),
           LogRec("error", "Error decoding. Using default settings.", <<>>)>>
    ELSE <<LogRec("info", "Loading settings from", <<>>)>>

\* line 87: train_settings.get("freeze") is None
freezeMissing(ts) == "freeze" \notin DOMAIN ts \/ ts["freeze"] = "None"

InitTrain ==
    /\ \/ fileState \in {"absent", "garbage"} /\ fileContent = EmptyDict
       \/ fileState = "json" /\ fileContent \in FileContents
    /\ exportArg \in {"None", "onnx", "engine"}
    /\ exportRaises \in BOOLEAN
    /\ writeOk \in BOOLEAN
    /\ tpc = "load_train"
    /\ train_settings = EmptyDict
    /\ export_settings = EmptyDict
    /\ trainCalls = <<>>
    /\ exportCalls = <<>>
    /\ record = EmptyDict
    /\ tlog = <<>>
    /\ terr = NoError

\* one call of load_or_create_settings followed by [section]
LoadSection(section, next) ==
    LET loaded == loadedSettings(fileState, fileContent)
    IN  /\ tlog' = tlog \o loadLog(fileState)
        /\ fileContent' = createdFile(fileState, fileContent)
        /\ fileState' = IF fileState = "absent" THEN "json" ELSE fileState
        /\ IF section \in DOMAIN loaded
           THEN /\ tpc' = next
                /\ terr' = terr
                /\ IF section = "train"
                   THEN train_settings' = loaded[section] /\ UNCHANGED export_settings
                   ELSE export_settings' = loaded[section] /\ UNCHANGED train_settings
           ELSE /\ tpc' = "raised"
                /\ terr' = Raise("KeyError", <<"load", section>>)
                /\ UNCHANGED <<train_settings, export_settings>>
        /\ UNCHANGED <<exportArg, exportRaises, writeOk, trainCalls, exportCalls, record>>

\* line 74: train_settings = load_or_create_settings(args.settings)["train"]
LoadTrain == tpc = "load_train" /\ LoadSection("train", "load_export")

\* line 75: export_settings = load_or_create_settings(args.settings)["export"]
LoadExport == tpc = "load_export" /\ LoadSection("export", "init_model")

\* lines 80-81: log the model name, build the model
InitModel ==
    /\ tpc = "init_model"
    /\ IF "model" \in DOMAIN train_settings
       THEN /\ tlog' = Append(tlog, LogRec("info", "Initializing model", <<train_settings["model"]>>))
            /\ tpc' = "freeze"
            /\ UNCHANGED terr
       ELSE /\ terr' = Raise("KeyError", <<"init_model", "model">>)
            /\ tpc' = "raised"
            /\ UNCHANGED tlog
    /\ UNCHANGED <<fileState, fileContent, exportArg, exportRaises, writeOk,
                   train_settings, export_settings, trainCalls, exportCalls, record>>

\* lines 87-89: enforce a freeze value
EnforceFreeze ==
    /\ tpc = "freeze"
    /\ IF freezeMissing(train_settings)
       THEN /\ tlog' = Append(tlog, LogRec("warning", "'freeze' parameter missing. Defaulting to 10 to freeze backbone.", <<>>))
            /\ train_settings' = DictSet(train_settings, "freeze", "10")
       ELSE UNCHANGED <<tlog, train_settings>>
    /\ tpc' = "train"
    /\ UNCHANGED <<fileState, fileContent, exportArg, exportRaises, writeOk,
                   export_settings, trainCalls, exportCalls, record, terr>>

\* lines 91-98: model.train(**train_settings)
Train ==
    /\ tpc = "train"
    /\ trainCalls' = Append(trainCalls, train_settings)
    /\ tlog' = tlog \o <<LogRec("info", "Starting training with settings", <<>>),
                         LogRec("info", "Training completed.", <<>>)>>
    /\ tpc' = "export"
    /\ UNCHANGED <<fileState, fileContent, exportArg, exportRaises, writeOk,
                   train_settings, export_settings, exportCalls, record, terr>>

\* lines 104-113: the export call fails when a setting it reads is missing
\* or when model.export raises
exportFails == (\E i \in 1..Len(export_keys) : export_keys[i] \notin DOMAIN export_settings)
               \/ exportRaises

\* line 115: the handler formats export_settings['export'] into its message
handlerSafe(es) == "export" \in DOMAIN es

\* lines 101-115: the optional export step
Export ==
    /\ tpc = "export"
    /\ IF exportArg = "None"
       THEN /\ tpc' = "save"
            /\ UNCHANGED <<tlog, exportCalls, terr>>
       ELSE /\ exportCalls' = IF \A i \in 1..Len(export_keys) : export_keys[i] \in DOMAIN export_settings
                              THEN Append(exportCalls, exportArg) ELSE exportCalls
            /\ IF ~exportFails
               THEN /\ tlog' = Append(tlog, LogRec("info", "Exporting model", <<exportArg>>))
                    /\ tpc' = "save"
                    /\ UNCHANGED terr
               ELSE IF handlerSafe(export_settings)
               THEN /\ tlog' = tlog \o <<LogRec("info", "Exporting model", <<exportArg>>),
                                         LogRec("error", "Failed to export model", <<export_settings["export"]>>)>>
                    /\ tpc' = "save"
                    /\ UNCHANGED terr
               ELSE /\ tlog' = Append(tlog, LogRec("info", "Exporting model", <<exportArg>>))
                    /\ terr' = Raise("KeyError", <<"export", "export">>)
                    /\ tpc' = "raised"
    /\ UNCHANGED <<fileState, fileContent, exportArg, exportRaises, writeOk,
                   train_settings, export_settings, trainCalls, record>>

\* lines 119-137: write the run record
SaveRecord ==
    /\ tpc = "save"
    /\ IF "name" \notin DOMAIN train_settings
       THEN /\ terr' = Raise("KeyError", <<"save", "name">>)
            /\ tpc' = "raised"
            /\ UNCHANGED <<tlog, record>>
       ELSE IF writeOk
       THEN /\ record' = train_settings
            /\ tlog' = Append(tlog, LogRec("info", "Training parameters saved", <<>>))
            /\ tpc' = "done"
            /\ UNCHANGED terr
       ELSE /\ tlog' = Append(tlog, LogRec("error", "Failed to save training parameters", <<>>))
            /\ tpc' = "done"
            /\ UNCHANGED <<terr, record>>
    /\ UNCHANGED <<fileState, fileContent, exportArg, exportRaises, writeOk,
                   train_settings, export_settings, trainCalls, exportCalls>>

\* ------------------------------------------------------------------------
\* Specifications: one per script, the other scripts idle
\* ------------------------------------------------------------------------
vars == <<fvars, evars, dvars, tvars>>

IdleFetch ==
    /\ settings = {}
    /\ fpc = "idle"
    /\ netCalls = <<>>
    /\ dirState = "unset"
    /\ dirMade = FALSE
    /\ flog = <<>>
    /\ ferr = NoError
    /\ fret = "none"
    /\ extracted = 0
    /\ listed = "unset"
    /\ resp = NoResponse
    /\ zip_resp = 0

IdleExtract ==
    /\ inputExists = FALSE
    /\ mkdirOk = FALSE
    /\ video_files = <<>>
    /\ epc = "idle"
    /\ vidx = 1
    /\ frame_counter = 1
    /\ success_count = 0
    /\ outdir = {}
    /\ elog = <<>>

IdleScale ==
    /\ ffmpegFound = FALSE
    /\ inputFile = FALSE
    /\ probe = [kind |-> "RuntimeError", w |-> 0, h |-> 0]
    /\ ffmpegRc = 0
    /\ dpc = "idle"
    /\ orig = Unbound
    /\ target = Unbound
    /\ cmds = <<>>
    /\ dlog = <<>>
    /\ derr = NoError

IdleTrain ==
    /\ fileState = "absent"
    /\ fileContent = EmptyDict
    /\ exportArg = "None"
    /\ exportRaises = FALSE
    /\ writeOk = FALSE
    /\ tpc = "idle"
    /\ train_settings = EmptyDict
    /\ export_settings = EmptyDict
    /\ trainCalls = <<>>
    /\ exportCalls = <<>>
    /\ record = EmptyDict
    /\ tlog = <<>>
    /\ terr = NoError

FetchInit == InitFetch /\ IdleExtract /\ IdleScale /\ IdleTrain

FetchNext ==
    \/ Validate /\ UNCHANGED <<evars, dvars, tvars>>
    \/ PrimaryDownload /\ UNCHANGED <<evars, dvars, tvars>>
    \/ Verify /\ UNCHANGED <<evars, dvars, tvars>>
    \/ ExportRequest /\ UNCHANGED <<evars, dvars, tvars>>
    \/ ZipFetch /\ UNCHANGED <<evars, dvars, tvars>>
    \/ Extract /\ UNCHANGED <<evars, dvars, tvars>>
    \/ Return /\ UNCHANGED <<evars, dvars, tvars>>

SpecFetch == FetchInit /\ [][FetchNext]_vars

ExtractInit == InitExtract /\ IdleFetch /\ IdleScale /\ IdleTrain

ExtractNext ==
    \/ Start /\ UNCHANGED <<fvars, dvars, tvars>>
    \/ ProcessVideo /\ UNCHANGED <<fvars, dvars, tvars>>
    \/ Report /\ UNCHANGED <<fvars, dvars, tvars>>

SpecExtract == ExtractInit /\ [][ExtractNext]_vars

ScaleInit == InitScale /\ IdleFetch /\ IdleExtract /\ IdleTrain

ScaleNext ==
    \/ CheckEnv /\ UNCHANGED <<fvars, evars, tvars>>
    \/ ProbeAndTarget /\ UNCHANGED <<fvars, evars, tvars>>
    \/ LogScaling /\ UNCHANGED <<fvars, evars, tvars>>
    \/ RunTranscoder /\ UNCHANGED <<fvars, evars, tvars>>

SpecScale == ScaleInit /\ [][ScaleNext]_vars

TrainInit == InitTrain /\ IdleFetch /\ IdleExtract /\ IdleScale

TrainNext ==
    \/ LoadTrain /\ UNCHANGED <<fvars, evars, dvars>>
    \/ LoadExport /\ UNCHANGED <<fvars, evars, dvars>>
    \/ InitModel /\ UNCHANGED <<fvars, evars, dvars>>
    \/ EnforceFreeze /\ UNCHANGED <<fvars, evars, dvars>>
    \/ Train /\ UNCHANGED <<fvars, evars, dvars>>
    \/ Export /\ UNCHANGED <<fvars, evars, dvars>>
    \/ SaveRecord /\ UNCHANGED <<fvars, evars, dvars>>

SpecTrain == TrainInit /\ [][TrainNext]_vars

\* ------------------------------------------------------------------------
\* Properties
\* ------------------------------------------------------------------------
Range(q) == {q[i] : i \in 1..Len(q)}

Count(q, x) == Cardinality({i \in 1..Len(q) : q[i] = x})

RequiredSet == {"api_key", "workspace", "project", "version", "format"}

\* C1: a settings mapping that lacks required keys makes download_dataset
\* raise a configuration error that names every absent required key, each
\* once, and no present key, before the directory is made and before any
\* network call (authentication, download, export-link or zip request).
C1_MissingKeysError ==
    (RequiredSet \ settings # {} /\ fpc # "validate") =>
        /\ fpc = "raised"
        /\ ferr.type = "ValueError"
        /\ Range(ferr.arg) = RequiredSet \ settings
        /\ Len(ferr.arg) = Cardinality(RequiredSet \ settings)
        /\ netCalls = <<>>
        /\ extracted = 0
        /\ ~dirMade
        /\ \E i \in 1..Len(flog) : flog[i].level = "error" /\ flog[i].arg = ferr.arg

\* C1 witness: the error was raised with some keys present and some absent.
C1_Witness ==
    /\ fpc = "raised"
    /\ ferr.type = "ValueError"
    /\ Len(ferr.arg) = 2
    /\ "api_key" \in settings
    /\ "format" \notin settings

\* C2: once the fallback path has started, no failure of one of its steps
\* leaves download_dataset as an exception; the call ends by returning the
\* target directory path.
C2_FallbackNeverRaises ==
    ("export_link" \in Range(netCalls)) =>
        /\ fpc # "raised"
        /\ (fpc = "done" => fret = Location)

\* C3: the fallback is attempted exactly once when the directory the primary
\* download left exists and is empty, and never when it holds files or does
\* not exist; the zip is requested only after the export-link response had
\* status 200 and a link, the archive is extracted only after the zip response
\* had status 200, and each of the three steps happens at most once.
C3_FallbackOnceInOrder ==
    /\ Count(netCalls, "export_link") <= 1
    /\ Count(netCalls, "zip") <= 1
    /\ extracted <= 1
    /\ \E k \in 0..4 : netCalls = SubSeq(<<"auth", "download", "export_link", "zip">>, 1, k)
    /\ (listed = "empty" /\ fpc # "export_req") => Count(netCalls, "export_link") = 1
    /\ (listed = "empty" /\ fpc = "export_req") => Count(netCalls, "export_link") = 0
    /\ (listed # "empty") =>
           (Count(netCalls, "export_link") = 0 /\ Count(netCalls, "zip") = 0 /\ extracted = 0)
    /\ (listed = "unset" /\ dirState = "empty") => fpc = "verify"
    /\ ("zip" \in Range(netCalls) \/ fpc = "zip_fetch") => (resp.status = 200 /\ resp.body = "link")
    /\ (extracted = 1 \/ fpc = "extract") => (zip_resp = 200 /\ Count(netCalls, "zip") = 1)

\* C3 witness: a call went through the whole fallback and returned.
C3_Witness ==
    /\ fpc = "done"
    /\ listed = "empty"
    /\ extracted = 1
    /\ netCalls = <<"auth", "download", "export_link", "zip">>

RECURSIVE ExpectedFrames(_, _)
\* the frames of the first k videos that the batch keeps: those of the videos
\* that exited zero, in video order, then in frame order
ExpectedFrames(vs, k) ==
    IF k = 0 THEN <<>>
    ELSE ExpectedFrames(vs, k - 1)
         \o (IF vs[k].rc = 0 THEN [i \in 1..vs[k].n |-> <<k, i>>] ELSE <<>>)

\* the file name digits of frame number k, six wide
SixDigits(k) == <<(k \div 100000) % 10, (k \div 10000) % 10, (k \div 1000) % 10,
                  (k \div 100) % 10, (k \div 10) % 10, k % 10>>

\* videos among the first k that exited zero and left at least one frame
Succeeded(vs, k) == {i \in 1..k : vs[i].rc = 0 /\ vs[i].n > 0}

\* C4: the frames in the output directory are numbered 1, 2, ... without gap,
\* duplicate or reset, in video order then frame order, and their number (and
\* the total reported, frame_counter - 1) is the sum of the frame counts of
\* the videos that exited zero.
C4_ContiguousFrames ==
    LET good == ExpectedFrames(video_files, vidx - 1)
    IN  /\ frame_counter - 1 = Len(good)
        /\ Cardinality(outdir) = Len(good)
        /\ outdir = {[name |-> SixDigits(k), video |-> good[k][1], tmp |-> SixDigits(good[k][2])] :
                        k \in 1..Len(good)}
        /\ epc = "done" =>
              /\ vidx = Len(video_files) + 1
              /\ elog[Len(elog)].msg = "Completed"
              /\ elog[Len(elog)].arg[1] = Len(ExpectedFrames(video_files, Len(video_files)))

\* C4 witness: a finished batch in which two videos produced frames, the
\* second one more than one.
C4_Witness ==
    /\ epc = "done"
    /\ \E f, g \in outdir : f.video < g.video /\ g.tmp = SixDigits(2)

\* what holds after every step of the batch
C10_Inv ==
    /\ success_count = Cardinality(Succeeded(video_files, vidx - 1))
    /\ frame_counter = 1 + Len(ExpectedFrames(video_files, vidx - 1))
    /\ \A i \in 1..(vidx - 1) :
          video_files[i].rc # 0 =>
             /\ \E j \in 1..Len(elog) : elog[j].level = "error" /\ elog[j].arg = <<i>>
             /\ \A f \in outdir : f.video # i
    /\ \A i \in Succeeded(video_files, vidx - 1) : \E f \in outdir : f.video = i
    /\ epc = "done" =>
          /\ vidx = Len(video_files) + 1
          /\ elog[Len(elog)].arg[2] = Cardinality(Succeeded(video_files, Len(video_files)))

\* what every step of the loop does
C10_Step ==
    /\ (epc = "loop" /\ vidx <= Len(video_files)) => (epc' = "loop" /\ vidx' = vidx + 1)
    /\ (epc = "loop" /\ vidx > Len(video_files)) => epc' = "done"
    /\ (epc = "loop" /\ vidx <= Len(video_files) /\ video_files[vidx].rc # 0) =>
          /\ frame_counter' = frame_counter
          /\ success_count' = success_count
          /\ outdir' = outdir
          /\ elog' = Append(elog, LogRec("error", "Failed to extract frames", <<vidx>>))

\* C10: a video whose transcoder run exits non-zero is logged and skipped: it
\* adds no frame and advances neither counter; the loop goes on to the next
\* video whatever the exit code, ends only after the last video with the
\* report, and the success count reported is the number of videos that exited
\* zero and produced at least one frame.
C10_SkipAndContinue == [][C10_Inv /\ C10_Inv' /\ C10_Step]_vars

\* C10 witness: a finished batch in which a video failed after writing frames
\* and a later video was extracted.
C10_Witness ==
    /\ epc = "done"
    /\ \E i, j \in 1..Len(video_files) :
          /\ i < j
          /\ video_files[i].rc # 0
          /\ video_files[i].n > 0
          /\ \E f \in outdir : f.video = j

\* C5: when the probe fails, the downscaler warns, takes 1280x720 and runs
\* the transcoder with it; it does not fail because of the probe.
C5_ProbeFailureFallsBack ==
    (probe.kind = "RuntimeError" /\ dpc \in {"done", "raised"} /\ ffmpegFound /\ inputFile) =>
        /\ \E i \in 1..Len(dlog) : dlog[i].level = "warning"
        /\ cmds = << <<1280, 720>> >>

\* x rounded up to an even number
EvenUp(x) == x + (x % 2)

\* a / b rounded to the nearest integer, ties to the even one
RoundDiv(a, b) ==
    LET q == a \div b
        r == a % b
    IN  IF 2 * r > b THEN q + 1
        ELSE IF 2 * r < b THEN q
        ELSE IF q % 2 = 0 THEN q ELSE q + 1

\* C6 as stated: the target is (round(720 * w / h) made even, 720).
C6_RoundedWidth ==
    orig.bound => target = Bound(EvenUp(RoundDiv(720 * orig.w, orig.h)), 720)

\* C6: for a probed size (w, h) the target height is 720 and the target
\* width is 720 * (w / h) in double arithmetic cut to an integer (not
\* rounded), raised by one when odd: an even number that is floor(720 w / h)
\* made even, or, only when 720 w / h is an integer that the double product
\* falls just below, that integer less one made even; (1920, 1080) gives
\* (1280, 720) and (1079, 608) gives width 1278.
C6_TruncatedWidth ==
    orig.bound =>
        LET F == (720 * orig.w) \div orig.h
        IN  /\ target.bound
            /\ target.h = 720
            /\ target.w % 2 = 0
            /\ target.w \in {EvenUp(F), EvenUp(F - 1)}
            /\ ((720 * orig.w) % orig.h # 0) => target.w = EvenUp(F)
            /\ (orig.w = 1920 /\ orig.h = 1080) => target.w = 1280
            /\ (orig.w = 1079 /\ orig.h = 608) => target.w = 1278

\* C6 witness: the size 1079x608 was probed and the odd width 1277 raised.
C6_Witness ==
    /\ orig = Bound(1079, 608)
    /\ target = Bound(1278, 720)
    /\ dpc = "done"

\* C7: with an export format requested, a failure of the export step never
\* leaves main as an exception; main goes on to write the run record.
C7_ExportFailureSwallowed ==
    (exportArg # "None" /\ trainCalls # <<>> /\ tpc # "export") =>
        (tpc = "raised" => terr.arg[1] # "export")

\* C8: when the settings file does not exist it is created with the defaults
\* and the driver goes on to the training call; it does not fail before.
C8_AbsentFileTrains ==
    (tlog # <<>> /\ tlog[1].msg = "not found. Creating with default settings...") =>
        /\ fileState = "json"
        /\ fileContent = DEFAULT_SETTINGS
        /\ ~(tpc = "raised" /\ trainCalls = <<>>)

\* the settings file holds no freeze key where the driver looks for it
FreezeAbsent(c) ==
    IF "train" \in DOMAIN c THEN "freeze" \notin DOMAIN c["train"] ELSE "freeze" \notin DOMAIN c

\* C9: given a settings file without the freeze key, the driver warns and
\* reaches the training call with freeze = 10; it does not fail, and no
\* training call gets a null freeze.
C9_MissingFreezeProceeds ==
    /\ \A i \in 1..Len(trainCalls) :
          "freeze" \in DOMAIN trainCalls[i] /\ trainCalls[i]["freeze"] # "None"
    /\ (fileState = "json" /\ FreezeAbsent(fileContent) /\ tpc \in {"export", "save", "done", "raised"}) =>
          /\ Len(trainCalls) = 1
          /\ trainCalls[1]["freeze"] = "10"
          /\ \E i \in 1..Len(tlog) : tlog[i].level = "warning"

====
